---- MODULE Spec2Model ----
(***************************************************************************)
(* Expense bot (src/index.js, the OpenAI/Whisper + Google Sheets variant,  *)
(* lines 501-1209): text or voice message -> analyzeExpense -> draft shown *)
(* with confirm / cancel / change-category / change-amount buttons ->      *)
(* addExpenseToSheet on confirm.                                           *)
(*                                                                         *)
(* Strings are sequences of characters.  A Cyrillic letter is written as   *)
(* its transliteration ("k", "zh", "shch"; an upper-case letter is         *)
(* capitalised: "K"), one sequence element per letter, so that substring   *)
(* search, toLowerCase and the regular expressions act letter by letter    *)
(* as they do in the source.  A category name is written as one element:   *)
(* no category name holds "_" and no rule looks inside one.                *)
(***************************************************************************)
EXTENDS Integers, Sequences, FiniteSets, Bags, TLC

VARIABLES now, noteStorage, session, sheet, calls, inflight, messages, last

\* the state of the bot with the buttons
botVars == <<now, noteStorage, session, sheet, calls, inflight, messages, last>>

\* the regex extractor on its own: the phrases of the text given and the
\* value returned
VARIABLES typed, extractResult
\* the calls of the extractor made so far, each with its text and result
VARIABLES analyses

extractVars == <<typed, extractResult, analyses>>

\* the router variant (src/index.js, lines 1-500): the result registry, its
\* counter, and what the last request was answered with
VARIABLES analysisResults, resultCounter, sent

routerVars == <<analysisResults, resultCounter, sent>>

\* voice handling: the files of the temp directory and the handler
VARIABLES files, voice
\* voice messages whose handling overlaps: each handler's position and path
VARIABLES overlap

voiceVars == <<files, voice, overlap>>

\* the transcription service (src/main.js): the uploads directory and the
\* requests to /transcribe
VARIABLES uploads, requests

uploadVars == <<uploads, requests>>

vars == <<botVars, extractVars, routerVars, voiceVars, uploadVars>>

-----------------------------------------------------------------------------
(* Bounds of the model *)

\* Date.now() runs over 0..MaxClock
MaxClock == 2
\* handlers that may be suspended at an await at the same time
MaxInflight == 2
\* confirmation messages delivered in one run
MaxMessages == 2
\* addExpenseToSheet invocations in one run
MaxCalls == 2

-----------------------------------------------------------------------------
(* Strings *)

Digits == <<"0", "1", "2", "3", "4", "5", "6", "7", "8", "9">>

IsDigit(c) == \E i \in 1..10 : Digits[i] = c

DigitVal(c) == (CHOOSE i \in 1..10 : Digits[i] = c) - 1

\* the tail of s from position i on
Drop(s, i) == IF i > Len(s) THEN <<>> ELSE SubSeq(s, i, Len(s))

\* the length of the longest run of digits of s that starts at position i
RECURSIVE DigitRun(_, _)
DigitRun(s, i) ==
  IF i <= Len(s) /\ IsDigit(s[i]) THEN 1 + DigitRun(s, i + 1) ELSE 0

\* the value of a sequence of digits
RECURSIVE DigitsToNat(_)
DigitsToNat(ds) ==
  IF ds = <<>> THEN 0
  ELSE 10 * DigitsToNat(SubSeq(ds, 1, Len(ds) - 1)) + DigitVal(ds[Len(ds)])

\* Number.prototype.toString of a non-negative integer
RECURSIVE NatToString(_)
NatToString(n) ==
  IF n < 10 THEN <<Digits[n + 1]>>
  ELSE NatToString(n \div 10) \o <<Digits[(n % 10) + 1]>>

\* s with its trailing "0" characters removed
RECURSIVE StripTrailingZeros(_)
StripTrailingZeros(s) ==
  IF s # <<>> /\ s[Len(s)] = "0"
  THEN StripTrailingZeros(SubSeq(s, 1, Len(s) - 1))
  ELSE s

\* String.prototype.replace(',', '.'): only the first "," is replaced
ReplaceFirstComma(s) ==
  IF \E i \in 1..Len(s) : s[i] = ","
  THEN LET i == CHOOSE k \in 1..Len(s) :
                  s[k] = "," /\ \A j \in 1..(k - 1) : s[j] # ","
       IN [s EXCEPT ![i] = "."]
  ELSE s

\* does kw occur in s as a substring
Contains(s, kw) ==
  \E i \in 1..(Len(s) - Len(kw) + 1) : SubSeq(s, i, i + Len(kw) - 1) = kw

UpperCase ==
  <<"A", "B", "V", "H", "G", "D", "E", "Ye", "Zh", "Z", "Y", "I", "Yi", "J",
    "K", "L", "M", "N", "O", "P", "R", "S", "T", "U", "F", "Kh", "Ts", "Ch",
    "Sh", "Shch", "Q", "Yu", "Ya">>

LowerCase ==
  <<"a", "b", "v", "h", "g", "d", "e", "ye", "zh", "z", "y", "i", "yi", "j",
    "k", "l", "m", "n", "o", "p", "r", "s", "t", "u", "f", "kh", "ts", "ch",
    "sh", "shch", "q", "yu", "ya">>

\* String.prototype.toLowerCase, letter by letter
ToLowerCase(s) ==
  [i \in 1..Len(s) |->
     IF \E k \in 1..Len(UpperCase) : UpperCase[k] = s[i]
     THEN LowerCase[CHOOSE k \in 1..Len(UpperCase) : UpperCase[k] = s[i]]
     ELSE s[i]]

-----------------------------------------------------------------------------
(* Numbers: a JavaScript number that has a short decimal literal is kept   *)
(* as that literal: an integer part and the fraction digits (no trailing   *)
(* zero); NaN is a value of its own.  Exponents and Infinity are left out: *)
(* no string of the model holds one.                                       *)

NaN == [nan |-> TRUE, neg |-> FALSE, int |-> 0, frac |-> <<>>]

Num(neg, int, frac) ==
  LET f == StripTrailingZeros(frac)
  IN [nan |-> FALSE, neg |-> neg /\ (int # 0 \/ f # <<>>), int |-> int, frac |-> f]

IsNaN(x) == x.nan

\* x > 0
IsPositive(x) == ~x.nan /\ ~x.neg /\ (x.int # 0 \/ x.frac # <<>>)

\* parseFloat: leading blanks are skipped, then the longest prefix that is a
\* decimal literal is the value; whatever follows is ignored; no such
\* prefix gives NaN
ParseFloat(str) ==
  LET RECURSIVE Blanks(_)
      Blanks(i) == IF i <= Len(str) /\ str[i] = " " THEN Blanks(i + 1) ELSE i
      b    == Blanks(1)
      sgn  == b <= Len(str) /\ str[b] \in {"-", "+"}
      p    == IF sgn THEN b + 1 ELSE b
      neg  == sgn /\ str[b] = "-"
      n1   == DigitRun(str, p)
      dot  == p + n1 <= Len(str) /\ str[p + n1] = "."
      n2   == IF dot THEN DigitRun(str, p + n1 + 1) ELSE 0
  IN IF n1 = 0 /\ n2 = 0 THEN NaN
     ELSE Num(neg, DigitsToNat(SubSeq(str, p, p + n1 - 1)),
              SubSeq(str, p + n1 + 1, p + n1 + n2))

\* the template literal `${amount}`: Number.prototype.toString
NumberToString(x) ==
  IF x.nan THEN <<"N", "a", "N">>
  ELSE (IF x.neg THEN <<"-">> ELSE <<>>) \o NatToString(x.int)
       \o (IF x.frac = <<>> THEN <<>> ELSE <<".">> \o x.frac)

-----------------------------------------------------------------------------
(* Categories and the extractor *)

Produkty    == <<"produkty">>
Kafe        == <<"kafe">>
Pokupky     == <<"pokupky">>
Komunalni   == <<"komunalni posluhy">>
Sport       == <<"sport">>
Kanctovary  == <<"kanctovary">>
Transport   == <<"transport">>
Rozvahy     == <<"rozvahy">>
Zdorovya    == <<"zdorov'ya">>
Inshi       == <<"inshi">>

DEFAULT_CATEGORIES ==
  <<Produkty, Kafe, Pokupky, Komunalni, Sport, Kanctovary, Transport,
    Rozvahy, Zdorovya, Inshi>>

\* the keyword table of analyzeExpense in its order; a character class of
\* the source pattern is written out as its alternatives
categoryPatterns ==
  << [cat |-> Produkty, kws |->
       {<<"p", "r", "o", "d", "a", "k", "t">>,
        <<"p", "r", "o", "d", "u", "k", "t">>,
        <<"yi", "zh", "a">>, <<"yi", "zh", "i">>, <<"yi", "zh", "u">>,
        <<"kh", "l", "i", "b">>,
        <<"m", "o", "l", "o", "k", "o">>,
        <<"o", "v", "o", "ch">>,
        <<"f", "r", "u", "k", "t">>,
        <<"m", "a", "h", "a", "z", "y", "n">>,
        <<"s", "u", "p", "e", "r", "m", "a", "r", "k", "e", "t">>,
        <<"m", "a", "r", "k", "e", "t">>}],
     [cat |-> Kafe, kws |->
       {<<"k", "a", "f", "e">>, <<"k", "a", "f", "ye">>,
        <<"r", "e", "s", "t", "o", "r", "a", "n">>,
        <<"yi", "d", "a", "l", "q", "n">>,
        <<"o", "b", "i", "d">>,
        <<"v", "e", "ch", "e", "r", "ya">>, <<"v", "e", "ch", "e", "r", "yu">>,
        <<"s", "n", "i", "d", "a", "n", "o">>,
        <<"s", "n", "i", "d", "a", "n", "k">>,
        <<"p", "i", "ts", "a">>, <<"p", "i", "ts", "u">>,
        <<"s", "u", "sh", "i">>,
        <<"f", "a", "s", "t", "f", "u", "d">>}],
     [cat |-> Komunalni, kws |->
       {<<"k", "o", "m", "u", "n", "a", "l">>,
        <<"s", "v", "i", "t", "l", "o">>,
        <<"h", "a", "z">>,
        <<"v", "o", "d", "a">>, <<"v", "o", "d", "y">>,
        <<"o", "p", "a", "l", "e", "n">>,
        <<"e", "l", "e", "k", "t", "r", "o">>,
        <<"i", "n", "t", "e", "r", "n", "e", "t">>,
        <<"t", "e", "l", "e", "f", "o", "n">>}],
     [cat |-> Sport, kws |->
       {<<"s", "p", "o", "r", "t">>,
        <<"t", "r", "e", "n", "u">>,
        <<"f", "i", "t", "n", "e", "s">>,
        <<"a", "b", "o", "n", "e", "m", "e", "n", "t">>,
        <<"z", "a", "l">>,
        <<"b", "a", "s", "e", "j", "n">>,
        <<"j", "o", "h", "a">>}],
     [cat |-> Kanctovary, kws |->
       {<<"z", "o", "sh", "y", "t">>,
        <<"r", "u", "ch", "k">>,
        <<"o", "l", "i", "v", "ts">>,
        <<"p", "a", "p", "i", "r">>,
        <<"k", "a", "n", "ts">>,
        <<"k", "n", "y", "h">>,
        <<"k", "a", "n", "ts", "e", "l", "ya", "r">>}],
     [cat |-> Pokupky, kws |->
       {<<"o", "d", "ya", "h">>,
        <<"v", "z", "u", "t", "t">>,
        <<"s", "o", "r", "o", "ch">>,
        <<"m", "a", "h", "a", "z", "y", "n">>,
        <<"k", "u", "p", "y", "v">>, <<"k", "u", "p", "y", "l">>,
        <<"p", "r", "y", "d", "b", "a">>,
        <<"sh", "o", "p", "i", "n", "h">>,
        <<"sh", "o", "p", "p", "i", "n", "h">>}],
     [cat |-> Transport, kws |->
       {<<"a", "v", "t", "o", "b", "u", "s">>,
        <<"m", "e", "t", "r", "o">>,
        <<"t", "a", "k", "s", "i">>,
        <<"p", "o", "yi", "z", "d">>,
        <<"k", "v", "y", "t", "o", "k">>,
        <<"p", "r", "o", "yi", "z", "d">>,
        <<"b", "e", "n", "z", "y", "n">>,
        <<"p", "a", "l", "y", "v", "o">>}],
     [cat |-> Rozvahy, kws |->
       {<<"k", "i", "n", "o">>,
        <<"t", "e", "a", "t", "r">>,
        <<"k", "o", "n", "ts", "e", "r", "t">>,
        <<"r", "o", "z", "v", "a", "h">>,
        <<"v", "y", "s", "t", "a", "v">>,
        <<"p", "a", "r", "k">>,
        <<"a", "t", "r", "a", "k", "ts", "i", "o", "n">>}],
     [cat |-> Zdorovya, kws |->
       {<<"l", "i", "k">>,
        <<"a", "p", "t", "e", "k">>,
        <<"m", "e", "d", "y", "ts">>,
        <<"l", "i", "k", "a", "r">>,
        <<"s", "t", "o", "m", "a", "t", "o", "l", "o", "h">>,
        <<"t", "e", "r", "a", "p", "e", "v", "t">>,
        <<"z", "d", "o", "r", "o", "v">>}] >>

\* group 1 of the first match of /(\d+(?:[.,]\d+)?)\s*(...|)/ in text, or
\* <<>> when text holds no digit.  The currency group has an empty
\* alternative, so the match is decided by the digits alone.
AmountMatch(text) ==
  IF \E i \in 1..Len(text) : IsDigit(text[i])
  THEN LET i  == CHOOSE k \in 1..Len(text) :
                   IsDigit(text[k]) /\ \A j \in 1..(k - 1) : ~IsDigit(text[j])
           n1 == DigitRun(text, i)
           n2 == IF i + n1 <= Len(text) /\ text[i + n1] \in {".", ","}
                 THEN DigitRun(text, i + n1 + 1) ELSE 0
       IN SubSeq(text, i, IF n2 > 0 THEN i + n1 + n2 ELSE i + n1 - 1)
  ELSE <<>>

\* the category of the first rule, in table order, one of whose keywords
\* occurs in lowerText; "inshi" when no rule matches
RECURSIVE CategoryFrom(_, _)
CategoryFrom(lowerText, k) ==
  IF k > Len(categoryPatterns) THEN Inshi
  ELSE IF \E kw \in categoryPatterns[k].kws : Contains(lowerText, kw)
       THEN categoryPatterns[k].cat
       ELSE CategoryFrom(lowerText, k + 1)

\* analyzeExpense that leaves the comma of the amount as it is
analyzeExpenseCommaKept(text) ==
  IF text = <<>>
  THEN [error |-> TRUE, amount |-> NaN, category |-> Inshi]
  ELSE LET m == AmountMatch(text)
       IN [error    |-> FALSE,
           amount   |-> IF m # <<>> THEN ParseFloat(m) ELSE Num(FALSE, 0, <<>>),
           category |-> CategoryFrom(ToLowerCase(text), 1)]

\* analyzeExpense with amountRegex made once for all calls: exec goes on
\* from the lastIndex the call before left, and starts over when it finds
\* nothing
analyzeExpenseHoisted(text) ==
  IF text = <<>>
  THEN [error |-> TRUE, amount |-> NaN, category |-> Inshi]
  ELSE LET before == IF analyses = <<>> THEN <<>>
                     ELSE analyses[Len(analyses)].text
           first == IF AmountMatch(before) = <<>> THEN 0
                    ELSE CHOOSE k \in 1..Len(before) :
                           IsDigit(before[k]) /\ \A j \in 1..(k - 1) : ~IsDigit(before[j])
           lastIndex == IF first = 0 THEN 0
                        ELSE first + Len(AmountMatch(before)) - 1
           m == IF AmountMatch(Drop(text, lastIndex + 1)) # <<>>
                THEN AmountMatch(Drop(text, lastIndex + 1))
                ELSE AmountMatch(text)
       IN [error    |-> FALSE,
           amount   |-> IF m # <<>> THEN ParseFloat(ReplaceFirstComma(m))
                        ELSE Num(FALSE, 0, <<>>),
           category |-> CategoryFrom(ToLowerCase(text), 1)]

\* analyzeExpense(text) of the variant with the buttons: the amount is the
\* first number of the text (0 when it has none), the category that of the
\* first rule with a keyword in the text
analyzeExpense(text) ==
  IF text = <<>>
  THEN [error |-> TRUE, amount |-> NaN, category |-> Inshi]
  ELSE LET m == AmountMatch(text)
       IN [error    |-> FALSE,
           amount   |-> IF m # <<>> THEN ParseFloat(ReplaceFirstComma(m))
                        ELSE Num(FALSE, 0, <<>>),
           category |-> CategoryFrom(ToLowerCase(text), 1)]

-----------------------------------------------------------------------------
(* Button payloads (callback data) and their patterns *)

\* `confirm_${amount}_${category}_${noteId}`
ConfirmData(amount, category, noteId) ==
  <<"confirm_">> \o NumberToString(amount) \o <<"_">> \o category
    \o <<"_">> \o noteId

\* `change_category_${amount}_${noteId}`
ChangeCategoryData(amount, noteId) ==
  <<"change_category_">> \o NumberToString(amount) \o <<"_">> \o noteId

\* `set_category_${amount}_${category}_${noteId}`
SetCategoryData(amount, category, noteId) ==
  <<"set_category_">> \o NumberToString(amount) \o <<"_">> \o category
    \o <<"_">> \o noteId

\* `change_amount_${amount}_${category}_${noteId}`
ChangeAmountData(amount, category, noteId) ==
  <<"change_amount_">> \o NumberToString(amount) \o <<"_">> \o category
    \o <<"_">> \o noteId

\* the groups of /(.+)_(.+)/ on r: both groups are greedy, so the first
\* takes all up to the last "_" that leaves the second non-empty;
\* <<>> when r does not match
Groups2(r) ==
  LET cuts == {i \in 2..(Len(r) - 1) : r[i] = "_"}
  IN IF cuts = {} THEN <<>>
     ELSE LET i == CHOOSE k \in cuts : \A j \in cuts : j <= k
          IN <<SubSeq(r, 1, i - 1), SubSeq(r, i + 1, Len(r))>>

\* the groups of /(.+)_(.+)_(.+)/ on r: the first group is as long as a
\* match allows, then the second; <<>> when r does not match
Groups3(r) ==
  LET us   == {k \in 2..(Len(r) - 1) : r[k] = "_"}
      cuts == {k \in us : \E j \in us : k + 1 < j}
  IN IF cuts = {} THEN <<>>
     ELSE LET i == CHOOSE k \in cuts : \A d \in cuts : d <= k
              j == CHOOSE k \in us : k > i + 1 /\ \A d \in us : d <= k
          IN <<SubSeq(r, 1, i - 1), SubSeq(r, i + 1, j - 1),
               SubSeq(r, j + 1, Len(r))>>

\* ctx.match of a payload against the pattern that starts with prefix:
\* the groups, or <<>> when the pattern does not match
Match3(prefix, data) ==
  IF data # <<>> /\ data[1] = prefix THEN Groups3(Drop(data, 2)) ELSE <<>>

Match2(prefix, data) ==
  IF data # <<>> /\ data[1] = prefix THEN Groups2(Drop(data, 2)) ELSE <<>>

-----------------------------------------------------------------------------
(* State *)

Users == {"u1"}

\* "Kava 85 hrn"
KavaText == <<"K", "a", "v", "a", " ", "8", "5", " ", "h", "r", "n">>
\* "123,45"
CommaText == <<"1", "2", "3", ",", "4", "5">>

\* the texts a user sends
Texts == {KavaText, CommaText}

\* "produkty"
NoNumberText == <<"p", "r", "o", "d", "u", "k", "t", "y">>

\* the texts a user sends to the bot that is looked at for what it persists
PlainTexts == {KavaText, NoNumberText}

\* the categories a user picks in the category menu
MenuChoices == {Komunalni}

\* what handling a voice message may come to before the text is analysed
VoiceOutcomes ==
  {[kind |-> "downloadFailed", text |-> <<>>],
   [kind |-> "oversize", text |-> <<>>],
   [kind |-> "text", text |-> KavaText]}

\* what a call of the spreadsheet backend may come to
SheetOutcomes == {"ok", "authFailed", "loadFailed", "addRowFailed"}

NoPending == [category |-> <<>>, noteId |-> <<>>]

NoEvent == "none"

\* the reply a handler sent last
Event(op, user, noteId, reply) == reply

\* analyzeExpense on the texts of the model
Analysis ==
  [t \in Texts \cup PlainTexts \cup {o.text : o \in VoiceOutcomes} |->
     analyzeExpense(t)]

\* noteStorage[noteId]; undefined is written <<>>, which `!note` takes
\* like undefined
Lookup(store, noteId) ==
  IF noteId \in DOMAIN store THEN store[noteId] ELSE <<>>

\* noteStorage[noteId] = note
Put(store, noteId, note) ==
  [k \in DOMAIN store \cup {noteId} |-> IF k = noteId THEN note ELSE store[k]]

\* delete noteStorage[noteId]
Delete(store, noteId) == [k \in DOMAIN store \ {noteId} |-> store[k]]

\* the values addExpenseToSheet returned to the confirm handlers of
\* noteId, in the order of the calls
CallsFor(noteId) == IF noteId \in DOMAIN calls THEN calls[noteId] ELSE <<>>

\* how many rows the confirm handlers of noteId appended
RowsFor(noteId) == Len(SelectSeq(CallsFor(noteId), LAMBDA ok : ok))

RECURSIVE SumCalls(_)
SumCalls(ids) ==
  IF ids = {} THEN 0
  ELSE LET k == CHOOSE x \in ids : TRUE IN Len(calls[k]) + SumCalls(ids \ {k})

\* how many times addExpenseToSheet was called
NumCalls == SumCalls(DOMAIN calls)

\* the suspended handlers that wait at pc
Waiting(pc) == {h \in BagToSet(inflight) : h.pc = pc}

\* handler h is suspended at its await
Suspend(h) == inflight (+) SetToBag({h})

\* the suspended handler h goes on as g
Continue(h, g) == (inflight (-) SetToBag({h})) (+) SetToBag({g})

\* the suspended handler h returns
Return(h) == inflight (-) SetToBag({h})

\* room for one more suspended handler within the bounds
HasFreeSlot == BagCardinality(inflight) < MaxInflight

\* room for one more confirmation message within the bounds
MayCreate == Cardinality(messages) < MaxMessages

\* room for one more persistence call within the bounds
MayPersist ==
  NumCalls + BagCardinality([h \in Waiting("persist") |-> inflight[h]]) < MaxCalls

\* the bot with the buttons after construction
InitBot ==
  /\ now = 0
  /\ noteStorage = <<>>
  /\ session = [u \in Users |-> NoPending]
  /\ sheet = <<>>
  /\ calls = <<>>
  /\ inflight = EmptyBag
  /\ messages = {}
  /\ last = NoEvent

\* no text was given to the extractor yet
InitExtract ==
  /\ typed = <<>>
  /\ extractResult = [none |-> TRUE]
  /\ analyses = <<>>

\* analysisResults = new Map(), resultCounter = 1
InitRouter ==
  /\ analysisResults = <<>>
  /\ resultCounter = 1
  /\ sent = [to |-> "none", id |-> <<>>, reply |-> "none",
             value |-> [none |-> TRUE]]

\* the handlers of the voice messages in hand
Handlers == {1, 2}

\* an empty temp directory and no voice message in hand
InitVoice ==
  /\ files = <<>>
  /\ voice = [pc |-> "idle", user |-> "", filePath |-> <<>>, retries |-> 0,
              lastError |-> FALSE, response |-> <<"null">>,
              attempts |-> 0, waits |-> <<>>, text |-> <<>>,
              reply |-> "none", download |-> "none", fileSizeInMB |-> 0]
  /\ overlap = [h \in Handlers |-> [pc |-> "idle", filePath |-> <<>>]]

\* the requests to /transcribe that may be in hand at once
Requests == {1, 2}

\* an empty uploads directory and no request in hand
InitUpload ==
  /\ uploads = {}
  /\ requests = [r \in Requests |-> [pc |-> "idle", path |-> <<>>, status |-> "none"]]

Init == InitBot /\ InitExtract /\ InitRouter /\ InitVoice /\ InitUpload

-----------------------------------------------------------------------------
(* Operations *)

\* the order in which the handlers are registered on the bot: an update
\* goes to the first one that takes it and does not call next()
Middleware ==
  <<"session", "voice", "text", "confirm", "cancel", "change_category",
    "set_category", "change_amount", "start", "help", "amountReply">>

Precedes(a, b) ==
  \E i, j \in 1..Len(Middleware) :
    i < j /\ Middleware[i] = a /\ Middleware[j] = b

\* Date.now() moves on
Tick ==
  /\ now < MaxClock
  /\ now' = now + 1
  /\ UNCHANGED <<noteStorage, session, sheet, calls, inflight, messages, last>>
  /\ UNCHANGED <<extractVars, routerVars, voiceVars, uploadVars>>

\* sendExpenseConfirmation up to its await: the note is stored under the
\* clock value and the message with the four buttons is handed to the
\* transport
sendExpenseConfirmation(user, amount, category, note) ==
  LET noteId == NatToString(now)
  IN /\ noteStorage' = Put(noteStorage, noteId, note)
     /\ inflight' = Suspend(
          [pc |-> "reply", user |-> user, amount |-> amount,
           category |-> category, noteId |-> noteId, note |-> note])

\* the await of ctx.reply in sendExpenseConfirmation returns: the user has
\* the message and its buttons.  The round trip to the transport takes
\* more than a millisecond, so the clock has moved on since the store.
ConfirmationDelivered(h) ==
     /\ h.pc = "reply"
     /\ now > DigitsToNat(h.noteId)
     /\ MayCreate
     /\ messages' = messages \cup
          {[user |-> h.user, amount |-> h.amount, category |-> h.category,
            noteId |-> h.noteId, note |-> h.note, menu |-> <<>>]}
     /\ inflight' = Return(h)
     /\ last' = Event("send", h.user, h.noteId, "draft")
     /\ UNCHANGED <<now, noteStorage, session, sheet, calls>>

\* bot.on('text'); sess is the session as the handlers before it left it
OnText(u, text, sess) ==
  IF text[1] = "/"
  THEN /\ session' = sess
       /\ UNCHANGED <<now, noteStorage, sheet, calls, inflight, messages, last>>
  ELSE LET r == Analysis[text]
       IN IF r.error
          THEN /\ session' = sess
               /\ last' = Event("text", u, <<>>, "error")
               /\ UNCHANGED <<now, noteStorage, sheet, calls, inflight, messages>>
          ELSE /\ MayCreate
               /\ HasFreeSlot
               /\ sendExpenseConfirmation(u, r.amount, r.category, text)
               /\ session' = sess
               /\ UNCHANGED <<now, sheet, calls, messages, last>>

\* the bot.use middleware that takes the reply to "enter a new amount"
AmountReply(u, text) ==
  LET p == session[u]
  IN IF p # NoPending
     THEN LET note == Lookup(noteStorage, p.noteId)
          IN IF note = <<>>
             THEN OnText(u, text, [session EXCEPT ![u] = NoPending])
             ELSE LET newAmount == ParseFloat(ReplaceFirstComma(text))
                  IN IF IsNaN(newAmount) \/ ~IsPositive(newAmount)
                     THEN /\ last' = Event("amount", u, p.noteId, "invalid")
                          /\ UNCHANGED <<now, noteStorage, session, sheet,
                                         calls, inflight, messages>>
                     ELSE /\ MayCreate
                          /\ HasFreeSlot
                          /\ session' = [session EXCEPT ![u] = NoPending]
                          /\ sendExpenseConfirmation(u, newAmount,
                                                     p.category, note)
                          /\ UNCHANGED <<now, sheet, calls, messages, last>>
     ELSE OnText(u, text, session)

\* a text message from user u goes through the handlers in their order
TextMessage(u, text) ==
  IF Precedes("text", "amountReply")
  THEN OnText(u, text, session)
  ELSE AmountReply(u, text)

\* bot.on(['voice', 'audio']): download, size check, transcribeAudio,
\* then as for a text message with the transcribed text as the note
VoiceMessage(u, o) ==
  IF o.kind = "downloadFailed"
  THEN /\ last' = Event("voice", u, <<>>, "error")
       /\ UNCHANGED <<now, noteStorage, session, sheet, calls, inflight, messages>>
  ELSE IF o.kind = "oversize"
  THEN /\ last' = Event("voice", u, <<>>, "oversize")
       /\ UNCHANGED <<now, noteStorage, session, sheet, calls, inflight, messages>>
  ELSE LET r == Analysis[o.text]
       IN IF r.error
          THEN /\ last' = Event("voice", u, <<>>, "error")
               /\ UNCHANGED <<now, noteStorage, session, sheet, calls,
                              inflight, messages>>
          ELSE /\ MayCreate
               /\ HasFreeSlot
               /\ sendExpenseConfirmation(u, r.amount, r.category, o.text)
               /\ UNCHANGED <<now, session, sheet, calls, messages, last>>

\* the reply of every button handler to a noteId it does not find
NotFound(op, user, noteId) ==
  /\ last' = Event(op, user, noteId, "notfound")
  /\ UNCHANGED <<now, noteStorage, session, sheet, calls, inflight, messages>>

\* PressConfirm without the `if (!note)` guard
PressConfirmUnguarded(m) ==
  LET g == Match3("confirm_", ConfirmData(m.amount, m.category, m.noteId))
  IN /\ g # <<>>
     /\ HasFreeSlot
     /\ MayPersist
     /\ inflight' = Suspend(
          [pc |-> "persist", user |-> m.user, amount |-> ParseFloat(g[1]),
           category |-> g[2], noteId |-> g[3],
           note |-> Lookup(noteStorage, g[3])])
     /\ UNCHANGED <<now, noteStorage, session, sheet, calls, messages, last>>

\* bot.action(/confirm_(.+)_(.+)_(.+)/) up to the await before persistence
PressConfirm(m) ==
  LET g == Match3("confirm_", ConfirmData(m.amount, m.category, m.noteId))
  IN /\ g # <<>>
     /\ LET amount   == ParseFloat(g[1])
            category == g[2]
            noteId   == g[3]
            note     == Lookup(noteStorage, noteId)
        IN IF note = <<>>
           THEN NotFound("confirm", m.user, noteId)
           ELSE /\ HasFreeSlot
                /\ MayPersist
                /\ inflight' = Suspend(
                     [pc |-> "persist", user |-> m.user, amount |-> amount,
                      category |-> category, noteId |-> noteId, note |-> note])
                /\ UNCHANGED <<now, noteStorage, session, sheet, calls,
                               messages, last>>

\* addExpenseToSheet whose catch block returns true
addExpenseToSheetCatchTrue(rows, date, amount, category, note, outcome) ==
  IF outcome = "ok"
  THEN [success |-> TRUE,
        rows |-> Append(rows, [date |-> date, amount |-> amount,
                               category |-> category, note |-> note])]
  ELSE [success |-> TRUE, rows |-> rows]

\* addExpenseToSheet: the rows of the sheet afterwards and the value
\* returned; every failure of the backend is caught and gives false
addExpenseToSheet(rows, date, amount, category, note, outcome) ==
  IF outcome = "ok"
  THEN [success |-> TRUE,
        rows |-> Append(rows, [date |-> date, amount |-> amount,
                               category |-> category, note |-> note])]
  ELSE [success |-> FALSE, rows |-> rows]

\* the confirm handler from the call of addExpenseToSheet to the
\* acknowledgment it sends
ConfirmPersist(h, outcome) ==
  LET r == addExpenseToSheet(sheet, now, h.amount, h.category, h.note, outcome)
  IN /\ h.pc = "persist"
     /\ sheet' = r.rows
     /\ calls' = Put(calls, h.noteId, Append(CallsFor(h.noteId), r.success))
     /\ IF r.success
        THEN /\ last' = Event("confirm", h.user, h.noteId, "saved")
             /\ inflight' = Continue(h, [h EXCEPT !.pc = "ack"])
        ELSE /\ last' = Event("confirm", h.user, h.noteId, "savefailed")
             /\ inflight' = Return(h)
     /\ UNCHANGED <<now, noteStorage, session, messages>>

\* ConfirmDelete without the delete
ConfirmDeleteSkipped(h) ==
     /\ h.pc = "ack"
     /\ inflight' = Return(h)
     /\ UNCHANGED <<now, noteStorage, session, sheet, calls, messages, last>>

\* the confirm handler after the success acknowledgment:
\* delete noteStorage[noteId]
ConfirmDelete(h) ==
     /\ h.pc = "ack"
     /\ noteStorage' = Delete(noteStorage, h.noteId)
     /\ inflight' = Return(h)
     /\ UNCHANGED <<now, session, sheet, calls, messages, last>>

\* bot.action('cancel'): the buttons are removed and the user is told
PressCancel(m) ==
  /\ last' = Event("cancel", m.user, m.noteId, "cancelled")
  /\ UNCHANGED <<now, noteStorage, session, sheet, calls, inflight, messages>>

\* bot.action(/change_category_(.+)_(.+)/): the buttons of the message
\* become the category menu
PressChangeCategory(m) ==
  LET g == Match2("change_category_", ChangeCategoryData(m.amount, m.noteId))
  IN /\ g # <<>>
     /\ LET amount == ParseFloat(g[1])
            noteId == g[2]
            note   == Lookup(noteStorage, noteId)
        IN IF note = <<>>
           THEN NotFound("change_category", m.user, noteId)
           ELSE /\ messages' = (messages \ {m}) \cup
                     {[m EXCEPT !.menu = <<amount, noteId>>]}
                /\ last' = Event("change_category", m.user, noteId, "menu")
                /\ UNCHANGED <<now, noteStorage, session, sheet, calls, inflight>>

\* bot.action(/set_category_(.+)_(.+)_(.+)/) on the menu button of category c
PressSetCategory(m, c) ==
  /\ m.menu # <<>>
  /\ LET g == Match3("set_category_", SetCategoryData(m.menu[1], c, m.menu[2]))
     IN /\ g # <<>>
        /\ LET amount   == ParseFloat(g[1])
               category == g[2]
               noteId   == g[3]
               note     == Lookup(noteStorage, noteId)
           IN IF note = <<>>
              THEN NotFound("set_category", m.user, noteId)
              ELSE /\ MayCreate
                   /\ HasFreeSlot
                   /\ sendExpenseConfirmation(m.user, amount, category, note)
                   /\ UNCHANGED <<now, session, sheet, calls, messages, last>>

\* PressChangeAmount without the `if (!noteStorage[noteId])` guard
PressChangeAmountUnguarded(m) ==
  LET g == Match3("change_amount_", ChangeAmountData(m.amount, m.category, m.noteId))
  IN /\ g # <<>>
     /\ session' = [session EXCEPT ![m.user] =
          [category |-> g[2], noteId |-> g[3]]]
     /\ last' = Event("change_amount", m.user, g[3], "askAmount")
     /\ UNCHANGED <<now, noteStorage, sheet, calls, inflight, messages>>

\* bot.action(/change_amount_(.+)_(.+)_(.+)/)
PressChangeAmount(m) ==
  LET g == Match3("change_amount_", ChangeAmountData(m.amount, m.category, m.noteId))
  IN /\ g # <<>>
     /\ LET category == g[2]
            noteId   == g[3]
        IN IF Lookup(noteStorage, noteId) = <<>>
           THEN NotFound("change_amount", m.user, noteId)
           ELSE /\ session' = [session EXCEPT ![m.user] =
                     [category |-> category, noteId |-> noteId]]
                /\ last' = Event("change_amount", m.user, noteId, "askAmount")
                /\ UNCHANGED <<now, noteStorage, sheet, calls, inflight, messages>>

-----------------------------------------------------------------------------
(* Specifications *)

\* an update arrives and its handler runs up to its first await
Arrival ==
  \/ \E u \in Users, text \in Texts : TextMessage(u, text)
       /\ UNCHANGED <<extractVars, routerVars, voiceVars, uploadVars>>
  \/ \E u \in Users, o \in VoiceOutcomes : VoiceMessage(u, o)
       /\ UNCHANGED <<extractVars, routerVars, voiceVars, uploadVars>>
  \/ \E m \in messages : PressConfirm(m)
       /\ UNCHANGED <<extractVars, routerVars, voiceVars, uploadVars>>
  \/ \E m \in messages : PressCancel(m)
       /\ UNCHANGED <<extractVars, routerVars, voiceVars, uploadVars>>
  \/ \E m \in messages : PressChangeCategory(m)
       /\ UNCHANGED <<extractVars, routerVars, voiceVars, uploadVars>>
  \/ \E m \in messages, c \in MenuChoices : PressSetCategory(m, c)
       /\ UNCHANGED <<extractVars, routerVars, voiceVars, uploadVars>>
  \/ \E m \in messages : PressChangeAmount(m)
       /\ UNCHANGED <<extractVars, routerVars, voiceVars, uploadVars>>

\* a suspended handler goes on
Resume ==
  \/ \E h \in BagToSet(inflight) : ConfirmationDelivered(h)
       /\ UNCHANGED <<extractVars, routerVars, voiceVars, uploadVars>>
  \/ \E h \in BagToSet(inflight), outcome \in SheetOutcomes : ConfirmPersist(h, outcome)
       /\ UNCHANGED <<extractVars, routerVars, voiceVars, uploadVars>>
  \/ \E h \in BagToSet(inflight) : ConfirmDelete(h)
       /\ UNCHANGED <<extractVars, routerVars, voiceVars, uploadVars>>

NoneInflight == inflight = EmptyBag

\* the bot: handlers of different updates interleave at their awaits
Next == Tick \/ Arrival \/ Resume

Spec == Init /\ [][Next]_vars

\* the bot with the updates handled one at a time: an update is taken up
\* only when no handler is suspended
NextSeq == Tick \/ (NoneInflight /\ Arrival) \/ Resume

SpecSeq == Init /\ [][NextSeq]_vars

\* the bot with texts with and without a number, prompt and confirm, the
\* updates handled one at a time
NextPlain ==
  \/ Tick
  \/ \E u \in Users, text \in PlainTexts :
       NoneInflight /\ TextMessage(u, text)
         /\ UNCHANGED <<extractVars, routerVars, voiceVars, uploadVars>>
  \/ \E m \in messages :
       NoneInflight /\ PressConfirm(m)
         /\ UNCHANGED <<extractVars, routerVars, voiceVars, uploadVars>>
  \/ \E h \in BagToSet(inflight) : ConfirmationDelivered(h)
       /\ UNCHANGED <<extractVars, routerVars, voiceVars, uploadVars>>
  \/ \E h \in BagToSet(inflight), outcome \in SheetOutcomes : ConfirmPersist(h, outcome)
       /\ UNCHANGED <<extractVars, routerVars, voiceVars, uploadVars>>
  \/ \E h \in BagToSet(inflight) : ConfirmDelete(h)
       /\ UNCHANGED <<extractVars, routerVars, voiceVars, uploadVars>>

SpecPlain == Init /\ [][NextPlain]_vars

-----------------------------------------------------------------------------
(* The router variant (src/index.js, lines 1-500): analyzeExpense asks the *)
(* text-generation service, fallbackCategoryDetection asks it again, and   *)
(* processWebhookData keeps every result in analysisResults.               *)
(*                                                                         *)
(* A reply of the service is a string as above; the Latin words of a       *)
(* structured reply ("amount", "category", "json") are one element each,   *)
(* as no pattern looks inside them, and its double quote is written        *)
(* "dquote", its code fence "fence".  A call of the service that throws is *)
(* written Throws.                                                         *)

\* the amount of a result that has none: null
Null == [null |-> TRUE]

\* model.generateContent rejected
Throws == <<"throws">>

\* \s
IsSpace(c) == c \in {" ", "\n"}

\* [а-яіїєґА-ЯІЇЄҐ]
IsLetter(c) ==
  \E k \in 1..Len(LowerCase) : LowerCase[k] = c \/ UpperCase[k] = c

\* the length of the longest run of \s of s that starts at position i
RECURSIVE SpaceRun(_, _)
SpaceRun(s, i) ==
  IF i <= Len(s) /\ IsSpace(s[i]) THEN 1 + SpaceRun(s, i + 1) ELSE 0

\* the length of the longest run of [а-яіїєґА-ЯІЇЄҐ\s] of s from position i
RECURSIVE WordRun(_, _)
WordRun(s, i) ==
  IF i <= Len(s) /\ (IsLetter(s[i]) \/ IsSpace(s[i]))
  THEN 1 + WordRun(s, i + 1) ELSE 0

\* String.prototype.trim
RECURSIVE Trim(_)
Trim(s) ==
  IF s # <<>> /\ IsSpace(s[1]) THEN Trim(Tail(s))
  ELSE IF s # <<>> /\ IsSpace(s[Len(s)]) THEN Trim(SubSeq(s, 1, Len(s) - 1))
  ELSE s

\* the end of \d+(?:\.\d+)? matched greedily at position i of s (i - 1 when
\* s has no digit there)
NumberEnd(s, i) ==
  LET n1 == DigitRun(s, i)
      n2 == IF n1 > 0 /\ i + n1 <= Len(s) /\ s[i + n1] = "."
            THEN DigitRun(s, i + n1 + 1) ELSE 0
  IN IF n2 > 0 THEN i + n1 + n2 ELSE i + n1 - 1

\* does /(\d+(?:\.\d+)?)\s*,\s*([а-яіїєґА-ЯІЇЄҐ\s]+)/ match s at position i.
\* A shorter number leaves a digit or "." where "," or \s must follow, so
\* the greedy number is the only one to try.
ShapeAt(s, i) ==
  LET e == NumberEnd(s, i)
      c == e + 1 + SpaceRun(s, e + 1)
  IN /\ e >= i
     /\ c <= Len(s)
     /\ s[c] = ","
     /\ WordRun(s, c + 1) > 0

\* response.match(parseRegex): the groups of the leftmost match, <<>> when
\* there is none.  Group 2 is given trimmed, as the source only trims it.
ParseReply(response) ==
  IF \E i \in 1..Len(response) : ShapeAt(response, i)
  THEN LET i == CHOOSE k \in 1..Len(response) :
                  ShapeAt(response, k) /\ \A j \in 1..(k - 1) : ~ShapeAt(response, j)
           e == NumberEnd(response, i)
           c == e + 1 + SpaceRun(response, e + 1)
       IN <<SubSeq(response, i, e),
            Trim(SubSeq(response, c + 1, c + WordRun(response, c + 1)))>>
  ELSE <<>>

\* s without its \s characters
NoSpaces(s) == SelectSeq(s, LAMBDA c : ~IsSpace(c))

\* JSON.parse of a reply, for the replies of the model: a reply is either
\* the object {"amount": <number>, "category": "<letters>"} with any white
\* space between its tokens, or no JSON at all (SyntaxError: ok is FALSE)
JsonParse(response) ==
  LET r  == NoSpaces(response)
      e  == NumberEnd(r, 6)
      w  == WordRun(r, e + 7)
  IN IF /\ Len(r) >= 14
        /\ SubSeq(r, 1, 5) = <<"{", "dquote", "amount", "dquote", ":">>
        /\ e >= 6
        /\ e + 8 <= Len(r)
        /\ SubSeq(r, e + 1, e + 6) = <<",", "dquote", "category", "dquote", ":", "dquote">>
        /\ w > 0
        /\ e + 6 + w + 2 = Len(r)
        /\ SubSeq(r, e + 7 + w, Len(r)) = <<"dquote", "}">>
     THEN [ok |-> TRUE, amount |-> ParseFloat(SubSeq(r, 6, e)),
           category |-> SubSeq(r, e + 7, e + 6 + w)]
     ELSE [ok |-> FALSE, amount |-> Null, category |-> <<>>]

\* the length of the longest run of s from position i of double quotes,
\* \s and colons
RECURSIVE SeparatorRun(_, _)
SeparatorRun(s, i) ==
  IF i <= Len(s) /\ (s[i] \in {"dquote", ":"} \/ IsSpace(s[i]))
  THEN 1 + SeparatorRun(s, i + 1) ELSE 0

\* group 1 of the leftmost match of the amount pattern (the word, then
\* double quotes, \s or colons, then \d+(?:\.\d+)?) in s,
\* <<>> when there is none
AmountField(s) ==
  LET At(i) == /\ s[i] = "amount"
               /\ SeparatorRun(s, i + 1) > 0
               /\ DigitRun(s, i + 1 + SeparatorRun(s, i + 1)) > 0
  IN IF \E i \in 1..Len(s) : At(i)
     THEN LET i == CHOOSE k \in 1..Len(s) : At(k) /\ \A j \in 1..(k - 1) : ~At(j)
              b == i + 1 + SeparatorRun(s, i + 1)
          IN SubSeq(s, b, NumberEnd(s, b))
     ELSE <<>>

\* group 1, trimmed, of the leftmost match of
\* the category pattern (the word, then double quotes, \s or colons, then
\* an optional quote mark, then [а-яіїєґА-ЯІЇЄҐ\s]+) in s for the replies of
\* the model, where a letter or "'" follows the separators; <<>> when there
\* is no match
CategoryField(s) ==
  LET Start(i) == LET b == i + 1 + SeparatorRun(s, i + 1)
                  IN IF b <= Len(s) /\ s[b] = "'" THEN b + 1 ELSE b
      At(i) == /\ s[i] = "category"
               /\ SeparatorRun(s, i + 1) > 0
               /\ WordRun(s, Start(i)) > 0
  IN IF \E i \in 1..Len(s) : At(i)
     THEN LET i == CHOOSE k \in 1..Len(s) : At(k) /\ \A j \in 1..(k - 1) : ~At(j)
          IN Trim(SubSeq(s, Start(i), Start(i) + WordRun(s, Start(i)) - 1))
     ELSE <<>>

\* 'інші', letter by letter
InshiWord == <<"i", "n", "sh", "i">>

\* the value of both catch blocks
ErrorResult(originalText) ==
  [error |-> TRUE, amount |-> Null, category |-> InshiWord,
   originalText |-> originalText]

\* group 0 of the first match of /\d+(?:\.\d+)?/ in s, <<>> when s has no digit
FirstNumber(s) ==
  IF \E i \in 1..Len(s) : IsDigit(s[i])
  THEN LET i == CHOOSE k \in 1..Len(s) :
                  IsDigit(s[k]) /\ \A j \in 1..(k - 1) : ~IsDigit(s[j])
       IN SubSeq(s, i, NumberEnd(s, i))
  ELSE <<>>

\* what fallbackCategoryDetection returns, given what JSON.parse, the two
\* patterns on the reply and the number pattern on the text came to
FallbackResult(originalText, parsedResponse, amountMatch, categoryMatch, numberMatch) ==
  IF parsedResponse.ok
  THEN [error |-> FALSE, amount |-> parsedResponse.amount,
        category |-> parsedResponse.category, originalText |-> originalText]
  ELSE IF amountMatch # <<>> /\ categoryMatch # <<>>
  THEN [error |-> FALSE, amount |-> ParseFloat(amountMatch),
        category |-> categoryMatch, originalText |-> originalText]
  ELSE [error |-> FALSE,
        amount |-> IF numberMatch # <<>> THEN ParseFloat(numberMatch) ELSE Null,
        category |-> InshiWord, originalText |-> originalText]

\* fallbackCategoryDetection(text), the service answering `secondary`
fallbackCategoryDetection(originalText, secondary) ==
  IF secondary = Throws THEN ErrorResult(originalText)
  ELSE FallbackResult(originalText, JsonParse(secondary), AmountField(secondary),
                      CategoryField(secondary), FirstNumber(originalText))

\* what analyzeExpense returns, given what response.match(parseRegex) came to
PrimaryResult(originalText, match, secondary) ==
  IF match # <<>>
  THEN [error |-> FALSE, amount |-> ParseFloat(match[1]),
        category |-> match[2], originalText |-> originalText]
  ELSE fallbackCategoryDetection(originalText, secondary)

\* analyzeExpense(text) of the router variant, the service answering
\* `primary` and then, when it is asked again, `secondary`
analyzeExpenseDelegated(originalText, primary, secondary) ==
  IF primary = Throws THEN ErrorResult(originalText)
  ELSE PrimaryResult(originalText, ParseReply(Trim(primary)), secondary)

\* "Kupyv produkty za 250 hrn"
ProduktyText ==
  <<"K", "u", "p", "y", "v", " ", "p", "r", "o", "d", "u", "k", "t", "y", " ",
    "z", "a", " ", "2", "5", "0", " ", "h", "r", "n">>

\* "kava": a text without a digit
NoDigitText == <<"k", "a", "v", "a">>

\* the texts sent to the router variant
RouterTexts == {ProduktyText, KavaText, NoDigitText}

\* "250, produkty": the shape asked for
ShapedReply == <<"2", "5", "0", ",", " ", "p", "r", "o", "d", "u", "k", "t", "y">>

\* "500, podarunky": the shape asked for with a category of the service's own
OffListReply ==
  <<"5", "0", "0", ",", " ", "p", "o", "d", "a", "r", "u", "n", "k", "y">>

\* "ne znayu": no number, no field
ProseReply == <<"n", "e", " ", "z", "n", "a", "yu">>

\* {"amount": 250, "category": "kafe"}
JsonReply ==
  <<"{", "dquote", "amount", "dquote", ":", " ", "2", "5", "0", ",", " ",
    "dquote", "category", "dquote", ":", " ", "dquote", "k", "a", "f", "e", "dquote", "}">>

\* the same in a code fence: ```json ... ```
FencedReply == <<"fence", "json", "\n">> \o JsonReply \o <<"\n", "fence">>

\* what the service answers to the first prompt
PrimaryReplies == {Throws, ShapedReply, OffListReply, ProseReply}

\* what the service answers to the second prompt
SecondaryReplies == {Throws, JsonReply, FencedReply, ProseReply}

\* the bodies posted to /webhook
WebhookBodies ==
  {[text |-> <<>>, userId |-> "unknown", source |-> "text"],
   [text |-> ProduktyText, userId |-> "u1", source |-> "text"]}

\* the bodies posted to /router
RouterBodies ==
  {[type |-> "AUDIO", content |-> <<>>, userId |-> "u1"],
   [type |-> "OTHER", content |-> <<>>, userId |-> "u1"],
   [type |-> "TEXT", content |-> KavaText, userId |-> "u1"]}

\* analyzeExpense of the router variant on the texts and replies of the model
Delegated ==
  [t \in RouterTexts, p \in PrimaryReplies, q \in SecondaryReplies |->
     analyzeExpenseDelegated(t, p, q)]

\* if (analysisResults.size > 1000)
Capacity == 1000

\* Map.prototype.set: a Map is the sequence of its entries in the order
\* their keys were first set; a key that is there keeps its place
MapSet(map, key, value) ==
  IF \E i \in 1..Len(map) : map[i].key = key
  THEN [i \in 1..Len(map) |->
          IF map[i].key = key THEN [key |-> key, value |-> value] ELSE map[i]]
  ELSE Append(map, [key |-> key, value |-> value])

\* a Map that deletes the key set last
MapDeleteNewest(map) == SubSeq(map, 1, Len(map) - 1)

\* analysisResults.delete(analysisResults.keys().next().value)
MapDeleteOldest(map) == Tail(map)

\* the registry after analysisResult was stored
StoreResult(map, analysisResult) ==
  LET m == MapSet(map, NatToString(analysisResult.resultId), analysisResult)
  IN IF Len(m) > Capacity THEN MapDeleteOldest(m) ELSE m

\* nothing was returned
NoResult == [none |-> TRUE]

\* the analysisResult that processWebhookData builds of the extractor's
\* result
AnalysisResultAt(resultId, date, data, r) ==
  [resultId |-> resultId, date |-> date, amount |-> r.amount,
   category |-> r.category, originalText |-> r.originalText,
   error |-> r.error, userId |-> data.userId, source |-> data.source]

AnalysisResult(data, r) == AnalysisResultAt(resultCounter, now, data, r)

\* processWebhookData from analysisResults.set on
Stored(analysisResult) ==
  [threw |-> FALSE, value |-> analysisResult,
   analysisResults |-> StoreResult(analysisResults, analysisResult),
   resultCounter |-> resultCounter + 1]

\* processWebhookData(data): what it returns (or that it threw) and the
\* registry and the counter afterwards
processWebhookData(data, primary, secondary) ==
  IF data.text = <<>>
  THEN [threw |-> TRUE, value |-> NoResult,
        analysisResults |-> analysisResults, resultCounter |-> resultCounter]
  ELSE Stored(AnalysisResult(data, Delegated[data.text, primary, secondary]))

\* processRouterData(data)
processRouterData(data, primary, secondary) ==
  IF data.type = "TEXT"
  THEN processWebhookData([text |-> data.content, userId |-> data.userId,
                           source |-> "text"], primary, secondary)
  ELSE IF data.type = "AUDIO"
  THEN [threw |-> FALSE,
        value |-> [error |-> TRUE, amount |-> Null, category |-> InshiWord,
                   originalText |-> <<"Audio message not supported">>],
        analysisResults |-> analysisResults, resultCounter |-> resultCounter]
  ELSE [threw |-> TRUE, value |-> NoResult,
        analysisResults |-> analysisResults, resultCounter |-> resultCounter]

\* the registry and the counter after a request, and the answer to it
Answered(to, r, ok, failed) ==
  /\ analysisResults' = r.analysisResults
  /\ resultCounter' = r.resultCounter
  /\ sent' = [to |-> to, id |-> <<>>,
              reply |-> IF r.threw THEN failed ELSE ok, value |-> r.value]
  /\ UNCHANGED <<botVars, extractVars, voiceVars, uploadVars>>

\* app.post('/webhook')
WebhookPost(data, primary, secondary) ==
  Answered("/webhook", processWebhookData(data, primary, secondary), "200", "500")

\* app.post('/router')
RouterPost(data, primary, secondary) ==
  Answered("/router", processRouterData(data, primary, secondary), "200", "500")

\* bot.on('text') of the router variant with the .then/.catch of
\* routeToRouter
RouterText(u, message, primary, secondary) ==
  /\ message[1] # "/"
  /\ Answered("text",
              processRouterData([type |-> "TEXT", content |-> message, userId |-> u],
                                primary, secondary),
              "success", "failure")

\* bot.on(['voice', 'audio']) of the router variant
RouterVoice ==
  /\ sent' = [to |-> "voice", id |-> <<>>, reply |-> "unsupported",
              value |-> NoResult]
  /\ UNCHANGED <<analysisResults, resultCounter, botVars, extractVars, voiceVars, uploadVars>>

\* a Map that gets the value of the key set first, whatever the key
MapGetFirst(map, key) == map[1].value

\* analysisResults.get(resultId), for a key that is there
MapGet(map, key) ==
  map[CHOOSE i \in 1..Len(map) : map[i].key = key].value

\* analysisResults.has(resultId)
MapHas(map, key) == \E i \in 1..Len(map) : map[i].key = key

\* app.get('/api/analysis/:resultId')
GetAnalysis(resultId) ==
  /\ sent' = IF MapHas(analysisResults, resultId)
             THEN [to |-> "/api/analysis", id |-> resultId, reply |-> "200",
                   value |-> MapGet(analysisResults, resultId)]
             ELSE [to |-> "/api/analysis", id |-> resultId, reply |-> "404",
                   value |-> NoResult]
  /\ UNCHANGED <<analysisResults, resultCounter, botVars, extractVars, voiceVars, uploadVars>>

\* results stored in one run of the router
MaxRouted == 2

\* room for one more result within the bounds
MayRoute == resultCounter <= MaxRouted

\* a request to the router variant
NextRouter ==
  \/ \E data \in WebhookBodies, p \in PrimaryReplies, q \in SecondaryReplies :
       MayRoute /\ WebhookPost(data, p, q)
  \/ \E data \in RouterBodies, p \in PrimaryReplies, q \in SecondaryReplies :
       MayRoute /\ RouterPost(data, p, q)
  \/ \E u \in Users, t \in RouterTexts, p \in PrimaryReplies, q \in SecondaryReplies :
       MayRoute /\ RouterText(u, t, p, q)
  \/ MayRoute /\ RouterVoice

SpecRouter == Init /\ [][NextRouter]_vars

\* results stored in one run of the registry
MaxStored == 1003

\* room for one more result within the bounds
MayStore == resultCounter <= MaxStored

\* the body posted to /webhook over and over
RegistryBody == [text |-> ProduktyText, userId |-> "u1", source |-> "text"]

\* the result of the n-th call of the run
NthResult(n) ==
  AnalysisResultAt(n, 0, RegistryBody, Delegated[ProduktyText, ShapedReply, Throws])

\* the registry after the first n calls of the run, n below the capacity
Served(n) == [i \in 1..n |-> [key |-> NatToString(i), value |-> NthResult(i)]]

\* the run is looked at from its start and from shortly before the registry
\* is full
ServedBefore == {0, Capacity - 2}

\* the registry has answered n calls
InitRegistry ==
  /\ InitBot
  /\ InitExtract
  /\ InitVoice
  /\ InitUpload
  /\ \E n \in ServedBefore :
       /\ analysisResults = Served(n)
       /\ resultCounter = n + 1
       /\ sent = IF n = 0
                 THEN [to |-> "none", id |-> <<>>, reply |-> "none",
                       value |-> NoResult]
                 ELSE [to |-> "/webhook", id |-> <<>>, reply |-> "200",
                       value |-> NthResult(n)]

\* the ids asked for: the first two, the last two the registry has room
\* for, the first past it, one past the end of the run
RequestedIds ==
  {NatToString(n) : n \in {1, 2, Capacity - 1, Capacity, Capacity + 1, MaxStored + 1}}

\* processWebhookData called over and over, and results asked for
NextRegistry ==
  \/ \E data \in {RegistryBody} : MayStore /\ WebhookPost(data, ShapedReply, Throws)
  \/ \E resultId \in RequestedIds : GetAnalysis(resultId)

SpecRegistry == InitRegistry /\ [][NextRegistry]_vars

-----------------------------------------------------------------------------
(* The regex extractor on texts made of a few phrases *)

\* the phrases a text is made of: "Kupyv", "produkty", "za 250 hrn", "Kava",
\* "85", "hrn", "12,5", "kafe", "mahazyn"
Phrases ==
  {<<"K", "u", "p", "y", "v">>,
   <<"p", "r", "o", "d", "u", "k", "t", "y">>,
   <<"z", "a", " ", "2", "5", "0", " ", "h", "r", "n">>,
   <<"K", "a", "v", "a">>,
   <<"8", "5">>,
   <<"h", "r", "n">>,
   <<"1", "2", ",", "5">>,
   <<"k", "a", "f", "e">>,
   <<"m", "a", "h", "a", "z", "y", "n">>}

\* phrases in one text
MaxPhrases == 3

\* the phrases joined by blanks
RECURSIVE Join(_)
Join(ws) ==
  IF ws = <<>> THEN <<>>
  ELSE IF Len(ws) = 1 THEN ws[1]
  ELSE ws[1] \o <<" ">> \o Join(Tail(ws))

\* the text typed so far
TypedText == Join(typed)

\* one more phrase is typed
Type(w) ==
  /\ extractResult = [none |-> TRUE]
  /\ Len(typed) < MaxPhrases
  /\ typed' = Append(typed, w)
  /\ UNCHANGED <<extractResult, analyses, botVars, routerVars, voiceVars, uploadVars>>

\* analyzeExpense is called with the text
Analyze ==
  /\ extractResult = [none |-> TRUE]
  /\ extractResult' = analyzeExpense(TypedText)
  /\ UNCHANGED <<typed, analyses, botVars, routerVars, voiceVars, uploadVars>>

NextExtract == (\E w \in Phrases : Type(w)) \/ Analyze

SpecExtract == Init /\ [][NextExtract]_vars

-----------------------------------------------------------------------------
(* Voice messages: download, conversion, transcription with retries *)

\* MAX_FILE_SIZE_MB
MAX_FILE_SIZE_MB == 20

\* let retries = 3
Retries == 3

\* the milliseconds the wait grows by with every failed attempt
BackoffStep == 2000

\* "Ne vdalosya rozpiznaty audio. Sprobujte shche raz."
NotRecognizedRetry ==
  <<"N", "e", " ", "v", "d", "a", "l", "o", "s", "ya", " ", "r", "o", "z",
    "p", "i", "z", "n", "a", "t", "y", " ", "a", "u", "d", "i", "o", ".", " ",
    "S", "p", "r", "o", "b", "u", "j", "t", "e", " ", "shch", "e", " ", "r",
    "a", "z", ".">>

\* "Ne vdalosya rozpiznaty audio."
NotRecognized ==
  <<"N", "e", " ", "v", "d", "a", "l", "o", "s", "ya", " ", "r", "o", "z",
    "p", "i", "z", "n", "a", "t", "y", " ", "a", "u", "d", "i", "o", ".">>

\* "vytratyla 333 hrn na produkty"
PlaceholderText ==
  <<"v", "y", "t", "r", "a", "t", "y", "l", "a", " ", "3", "3", "3", " ",
    "h", "r", "n", " ", "n", "a", " ", "p", "r", "o", "d", "u", "k", "t", "y">>

\* "Fajl zanadto velykyj dlya obrobky. Sprobujte korotshe audio."
TooBigText ==
  <<"F", "a", "j", "l", " ", "z", "a", "n", "a", "d", "t", "o", " ", "v",
    "e", "l", "y", "k", "y", "j", " ", "d", "l", "ya", " ", "o", "b", "r",
    "o", "b", "k", "y", ".", " ", "S", "p", "r", "o", "b", "u", "j", "t", "e",
    " ", "k", "o", "r", "o", "t", "sh", "e", " ", "a", "u", "d", "i", "o",
    ".">>

\* "Konvertovanyj fajl zanadto velykyj dlya obrobky. Sprobujte korotshe
\* audio."
ConvertedTooBigText ==
  <<"K", "o", "n", "v", "e", "r", "t", "o", "v", "a", "n", "y", "j", " ">>
  \o TooBigText

\* what one call of the transcription backend may come to: a rejection, a
\* text, the empty text, a blank, a line end
BackendResults == {Throws, KavaText, <<>>, <<" ">>, <<"\n">>}

\* the sizes in MB of a downloaded file
DownloadSizes == {1, MAX_FILE_SIZE_MB + 1}

\* the sizes in MB of a converted file
WavSizes == {1, MAX_FILE_SIZE_MB + 1}

\* what downloadAudioFile may come to: getFile or the request rejects, the
\* writer fails before or after it created the file, the writer finishes
DownloadOutcomes == {"requestFailed", "writeFailed", "writeFailedPartial", "ok"}

\* what ffmpeg may come to: an error before or after it created the output
\* file, the end of the conversion
ConvertOutcomes == {"failed", "failedPartial", "ok"}

\* the await of ctx.reply that rejects in the last part of the handler:
\* 0 none, 1 the recognized text, 2 the analysis notice, 3 the error text
\* or the confirmation
ReplyFailures == 0..3

\* path.join(TEMP_DIR, `${Date.now()}.ogg`)
OggPath == NatToString(now) \o <<".ogg">>

\* filePath.replace(path.extname(filePath), '.wav')
WavPath(filePath) == SubSeq(filePath, 1, Len(filePath) - 1) \o <<".wav">>

\* the file at path is written with size MB
WriteFile(dir, path, size) ==
  [p \in DOMAIN dir \cup {path} |-> IF p = path THEN size ELSE dir[p]]

\* checkFileSize(filePath): 0 when the file cannot be read
checkFileSize(dir, filePath) ==
  IF filePath \in DOMAIN dir THEN dir[filePath] ELSE 0

\* cleanupFiles(filePaths)
cleanupFiles(dir, filePaths) == [p \in DOMAIN dir \ filePaths |-> dir[p]]

\* let response = null
NoResponse == <<"null">>

\* no voice message in hand
Idle ==
  [pc |-> "idle", user |-> "", filePath |-> <<>>, retries |-> 0,
   lastError |-> FALSE, response |-> NoResponse, attempts |-> 0,
   waits |-> <<>>, text |-> <<>>, reply |-> "none", download |-> "none",
   fileSizeInMB |-> 0]

\* the wait before the next attempt, one that does not grow
DelayFlat(retries) == BackoffStep

\* the wait before the next attempt when retries attempts are left
Delay(retries) == (Retries - retries) * BackoffStep

\* what transcribeAudio returns after the loop; reading the text of a null
\* response throws into the outer catch
TranscribeResult(filePath, response, lastError) ==
  IF response \in {NoResponse, <<>>} /\ lastError
  THEN IF Contains(filePath, <<"p", "r", "o", "d", "u", "k", "t">>)
       THEN PlaceholderText
       ELSE NotRecognizedRetry
  ELSE IF response = NoResponse THEN PlaceholderText
  ELSE IF response # <<>> THEN response ELSE NotRecognized

\* the texts transcribeAudio may return
VoiceTexts ==
  (BackendResults \ {Throws, <<>>})
    \cup {NotRecognizedRetry, NotRecognized, PlaceholderText, TooBigText,
          ConvertedTooBigText}

\* analyzeExpense on the texts transcribeAudio may return
VoiceAnalysis == [t \in VoiceTexts |-> analyzeExpense(t)]

\* the catch of the handler: the error reply, nothing else
VoiceFailed(v) == [v EXCEPT !.pc = "done", !.reply = "error"]

\* a voice or audio message arrives: the first reply
VoiceStart(u, replied) ==
  /\ voice.pc \in {"idle", "done"}
  /\ voice' = IF replied THEN [Idle EXCEPT !.pc = "download", !.user = u]
              ELSE VoiceFailed([Idle EXCEPT !.user = u])
  /\ UNCHANGED <<files, overlap, botVars, extractVars, routerVars, uploadVars>>

\* Download without the size check of the handler
DownloadUnchecked(outcome, size, replied) ==
  /\ voice.pc = "download"
  /\ IF outcome = "ok"
     THEN LET written == WriteFile(files, OggPath, size)
              v == [voice EXCEPT !.filePath = OggPath, !.download = "ok",
                                 !.fileSizeInMB = checkFileSize(written, OggPath)]
          IN /\ voice' = IF replied THEN [v EXCEPT !.pc = "convert"]
                         ELSE VoiceFailed(v)
             /\ files' = written
     ELSE /\ voice' = VoiceFailed([voice EXCEPT !.download = "failed"])
          /\ files' = IF outcome = "writeFailedPartial"
                      THEN WriteFile(files, OggPath, 0) ELSE files
  /\ UNCHANGED <<overlap, botVars, extractVars, routerVars, uploadVars>>

\* downloadAudioFile returns or throws; the size check of the handler and
\* the reply that follows it
Download(outcome, size, replied) ==
  /\ voice.pc = "download"
  /\ IF outcome = "ok"
     THEN LET written == WriteFile(files, OggPath, size)
              v == [voice EXCEPT !.filePath = OggPath, !.download = "ok",
                                 !.fileSizeInMB = checkFileSize(written, OggPath)]
          IN IF ~replied
             THEN /\ voice' = VoiceFailed(v)
                  /\ files' = written
             ELSE IF v.fileSizeInMB > MAX_FILE_SIZE_MB
             THEN /\ voice' = [v EXCEPT !.pc = "done", !.reply = "oversize"]
                  /\ files' = cleanupFiles(written, {OggPath})
             ELSE /\ voice' = [v EXCEPT !.pc = "convert"]
                  /\ files' = written
     ELSE /\ voice' = VoiceFailed([voice EXCEPT !.download = "failed"])
          /\ files' = IF outcome = "writeFailedPartial"
                      THEN WriteFile(files, OggPath, 0) ELSE files
  /\ UNCHANGED <<overlap, botVars, extractVars, routerVars, uploadVars>>

\* transcribeAudio up to the loop: the size check, ffmpeg, the size check
\* of the converted file
Convert(outcome, size) ==
  /\ voice.pc = "convert"
  /\ LET wavPath == WavPath(voice.filePath)
         written == WriteFile(files, wavPath, size)
     IN IF checkFileSize(files, voice.filePath) > MAX_FILE_SIZE_MB
        THEN /\ voice' = [voice EXCEPT !.pc = "recognized", !.text = TooBigText]
             /\ files' = files
        ELSE IF outcome # "ok"
        THEN /\ voice' = [voice EXCEPT !.pc = "recognized",
                                       !.text = PlaceholderText]
             /\ files' = IF outcome = "failedPartial"
                         THEN WriteFile(files, wavPath, 0) ELSE files
        ELSE IF checkFileSize(written, wavPath) > MAX_FILE_SIZE_MB
        THEN /\ voice' = [voice EXCEPT !.pc = "recognized",
                                       !.text = ConvertedTooBigText]
             /\ files' = cleanupFiles(written, {wavPath})
        ELSE /\ voice' = [voice EXCEPT !.pc = "attempt", !.retries = Retries]
             /\ files' = written
  /\ UNCHANGED <<overlap, botVars, extractVars, routerVars, uploadVars>>

\* transcribeAudio after the loop
Finish(v) ==
  /\ voice' = [v EXCEPT !.pc = "recognized",
                        !.text = TranscribeResult(v.filePath, v.response,
                                                  v.lastError)]
  /\ files' = cleanupFiles(files, {WavPath(v.filePath)})

\* one pass of the loop: openai.audio.transcriptions.create returns or
\* rejects
Attempt(result) ==
  /\ voice.pc = "attempt"
  /\ voice.retries > 0
  /\ LET v == [voice EXCEPT !.attempts = @ + 1]
     IN IF result # Throws
        THEN Finish([v EXCEPT !.response = result])
        ELSE LET w == [v EXCEPT !.lastError = TRUE, !.retries = @ - 1]
             IN IF w.retries > 0
                THEN /\ voice' = [w EXCEPT !.pc = "wait"]
                     /\ files' = files
                ELSE Finish(w)
  /\ UNCHANGED <<overlap, botVars, extractVars, routerVars, uploadVars>>

\* the timer of the wait before the next attempt fires
Wait ==
  /\ voice.pc = "wait"
  /\ voice' = [voice EXCEPT !.pc = "attempt",
                            !.waits = Append(@, Delay(voice.retries))]
  /\ UNCHANGED <<files, overlap, botVars, extractVars, routerVars, uploadVars>>

\* the handler after transcribeAudio: the replies, analyzeExpense, the
\* confirmation and the cleanup of the downloaded file
Recognized(failure) ==
  /\ voice.pc = "recognized"
  /\ LET r == VoiceAnalysis[voice.text]
         noteId == NatToString(now)
         stored == IF failure \in {1, 2} \/ r.error THEN noteStorage
                   ELSE Put(noteStorage, noteId, voice.text)
         shown == IF failure # 0 \/ r.error THEN messages
                  ELSE messages \cup
                         {[user |-> voice.user, amount |-> r.amount,
                           category |-> r.category, noteId |-> noteId,
                           note |-> voice.text, menu |-> <<>>]}
     IN /\ Cardinality(shown) <= MaxMessages
        /\ noteStorage' = stored
        /\ messages' = shown
        /\ IF failure # 0
           THEN /\ voice' = VoiceFailed(voice)
                /\ files' = files
           ELSE /\ voice' = [voice EXCEPT !.pc = "done",
                               !.reply = IF r.error THEN "error" ELSE "draft"]
                /\ files' = cleanupFiles(files, {voice.filePath})
  /\ UNCHANGED <<now, session, sheet, calls, inflight, last>>
  /\ UNCHANGED <<overlap, extractVars, routerVars, uploadVars>>

NextVoice ==
  \/ \E u \in Users, replied \in BOOLEAN : VoiceStart(u, replied)
  \/ \E outcome \in DownloadOutcomes, size \in DownloadSizes,
        replied \in BOOLEAN : Download(outcome, size, replied)
  \/ \E outcome \in ConvertOutcomes, size \in WavSizes : Convert(outcome, size)
  \/ \E result \in BackendResults : Attempt(result)
  \/ Wait
  \/ \E failure \in ReplyFailures : Recognized(failure)

SpecVoice == Init /\ [][NextVoice]_vars

-----------------------------------------------------------------------------
(* Voice messages whose handling overlaps in time *)

\* handler h is between its download and its return
InHand(h) == overlap[h].pc # "idle"

\* downloadAudioFile of handler h: the path is made from the clock and the
\* stream is written to it
OverlapDownload(h) ==
  /\ overlap[h].pc = "idle"
  /\ overlap' = [overlap EXCEPT ![h] = [pc |-> "downloaded", filePath |-> OggPath]]
  /\ files' = WriteFile(files, OggPath, 1)
  /\ UNCHANGED <<voice, botVars, extractVars, routerVars, uploadVars>>

\* ffmpeg of handler h reads its path and writes the path with .wav; it
\* fails, and transcribeAudio returns from its catch, when the input is gone
OverlapConvert(h) ==
  /\ overlap[h].pc = "downloaded"
  /\ IF overlap[h].filePath \in DOMAIN files
     THEN /\ files' = WriteFile(files, WavPath(overlap[h].filePath), 1)
          /\ overlap' = [overlap EXCEPT ![h].pc = "converted"]
     ELSE /\ files' = files
          /\ overlap' = [overlap EXCEPT ![h].pc = "transcribed"]
  /\ UNCHANGED <<voice, botVars, extractVars, routerVars, uploadVars>>

\* the loop of transcribeAudio of handler h is over: cleanupFiles([wavPath])
OverlapTranscribe(h) ==
  /\ overlap[h].pc = "converted"
  /\ files' = cleanupFiles(files, {WavPath(overlap[h].filePath)})
  /\ overlap' = [overlap EXCEPT ![h].pc = "transcribed"]
  /\ UNCHANGED <<voice, botVars, extractVars, routerVars, uploadVars>>

\* handler h ends: cleanupFiles([filePath])
OverlapCleanup(h) ==
  /\ overlap[h].pc = "transcribed"
  /\ files' = cleanupFiles(files, {overlap[h].filePath})
  /\ overlap' = [overlap EXCEPT ![h] = [pc |-> "idle", filePath |-> <<>>]]
  /\ UNCHANGED <<voice, botVars, extractVars, routerVars, uploadVars>>

NextOverlap ==
  \/ Tick
  \/ \E h \in Handlers : OverlapDownload(h)
  \/ \E h \in Handlers : OverlapConvert(h)
  \/ \E h \in Handlers : OverlapTranscribe(h)
  \/ \E h \in Handlers : OverlapCleanup(h)

SpecOverlap == Init /\ [][NextOverlap]_vars

-----------------------------------------------------------------------------
(* The regex extractor called again and again *)

\* "12,5 85"
TwoNumbersText == <<"1", "2", ",", "5", " ", "8", "5">>

\* the texts the extractor is called with
RepeatTexts == {KavaText, CommaText, TwoNumbersText, NoNumberText}

\* calls in one run
MaxAnalyses == 4

\* analyzeExpense(text) is called and returns
AnalyzeAgain(text) ==
  /\ Len(analyses) < MaxAnalyses
  /\ analyses' = Append(analyses, [text |-> text, result |-> analyzeExpense(text)])
  /\ UNCHANGED <<typed, extractResult, botVars, routerVars, voiceVars, uploadVars>>

NextRepeat == \E text \in RepeatTexts : AnalyzeAgain(text)

SpecRepeat == Init /\ [][NextRepeat]_vars

-----------------------------------------------------------------------------
(* The variant where the Telegram path stores results too *)

\* the analysisResult that processExpense builds of the extractor's result
ExpenseResult(resultId, date, userId, r) ==
  [resultId |-> resultId, date |-> date, amount |-> r.amount,
   category |-> r.category, originalText |-> r.originalText,
   userId |-> userId, source |-> "telegram"]

\* processExpense(text, userId, ctx): the replies, and the result stored
\* under the next resultId when the extractor gave no error
processExpense(text, userId, r) ==
  /\ IF Trim(text) = <<>>
     THEN /\ sent' = [to |-> "telegram", id |-> <<>>, reply |-> "empty",
                      value |-> NoResult]
          /\ UNCHANGED <<analysisResults, resultCounter>>
     ELSE IF r.error
     THEN /\ sent' = [to |-> "telegram", id |-> <<>>, reply |-> "error",
                      value |-> NoResult]
          /\ UNCHANGED <<analysisResults, resultCounter>>
     ELSE /\ analysisResults' =
               MapSet(analysisResults, NatToString(resultCounter),
                      ExpenseResult(resultCounter, now, userId, r))
          /\ resultCounter' = resultCounter + 1
          /\ sent' = [to |-> "telegram", id |-> <<>>, reply |-> "saved",
                      value |-> ExpenseResult(resultCounter, now, userId, r)]
  /\ UNCHANGED <<botVars, extractVars, voiceVars, uploadVars>>

\* the texts sent over Telegram: a blank, a text the service cannot be
\* asked about, a text it analyses
ExpenseInputs ==
  {[text |-> <<" ">>, primary |-> ShapedReply],
   [text |-> ProduktyText, primary |-> Throws],
   [text |-> ProduktyText, primary |-> ShapedReply]}

\* the calls the run is looked at from
BothServedBefore == Capacity - 6

\* the registry has answered the calls before
InitBoth ==
  /\ InitBot
  /\ InitExtract
  /\ InitVoice
  /\ InitUpload
  /\ analysisResults = Served(BothServedBefore)
  /\ resultCounter = BothServedBefore + 1
  /\ sent = [to |-> "/webhook", id |-> <<>>, reply |-> "200",
             value |-> NthResult(BothServedBefore)]

\* processExpense and processWebhookData called in any order
NextBoth ==
  \/ \E u \in Users, i \in ExpenseInputs :
       MayStore /\ processExpense(i.text, u, Delegated[ProduktyText, i.primary, Throws])
  \/ \E data \in {RegistryBody} : MayStore /\ WebhookPost(data, ShapedReply, Throws)

SpecBoth == InitBoth /\ [][NextBoth]_vars

-----------------------------------------------------------------------------
(* The transcription service: POST /transcribe *)

\* what deepgram.transcription.preRecorded may come to: a result, a
\* rejection, a result without channels
DeepgramOutcomes == {"ok", "rejected", "malformed"}

\* the filename multer gives: `${Date.now()}-${file.originalname}`
UploadPath == NatToString(now) \o <<"-", "audio.ogg">>

\* a catch block that leaves the file where it is
CatchKeepsFile(dir, path, unlinked) ==
  [uploads |-> dir, pc |-> "done", status |-> "500"]

\* the catch block: the file is removed if it is there, then 500 is sent;
\* when unlinkSync throws, the handler ends without a response
CatchBlock(dir, path, unlinked) ==
  IF path \in dir
  THEN IF unlinked
       THEN [uploads |-> dir \ {path}, pc |-> "done", status |-> "500"]
       ELSE [uploads |-> dir, pc |-> "hung", status |-> "none"]
  ELSE [uploads |-> dir, pc |-> "done", status |-> "500"]

\* the request r ends as the record e says
Ends(r, path, e) ==
  /\ uploads' = e.uploads
  /\ requests' = [requests EXCEPT ![r] = [pc |-> e.pc, path |-> path,
                                          status |-> e.status]]

\* app.post('/transcribe') up to the await: multer has stored the file, if
\* one was sent and accepted; the handler reads it
PostTranscribe(r, hasFile, readable, unlinked) ==
  /\ requests[r].pc \in {"idle", "done"}
  /\ IF ~hasFile
     THEN Ends(r, <<>>, [uploads |-> uploads, pc |-> "done", status |-> "400"])
     ELSE IF readable
     THEN Ends(r, UploadPath, [uploads |-> uploads \cup {UploadPath},
                               pc |-> "transcribing", status |-> "none"])
     ELSE Ends(r, UploadPath,
               CatchBlock(uploads \cup {UploadPath}, UploadPath, unlinked))
  /\ UNCHANGED <<botVars, extractVars, routerVars, voiceVars>>

\* the await of the backend returns or throws: the transcript is analysed,
\* the file removed and 200 sent, or the catch block runs
Transcribed(r, outcome, unlinked) ==
  /\ requests[r].pc = "transcribing"
  /\ LET path == requests[r].path
     IN IF outcome = "ok" /\ path \in uploads /\ unlinked
        THEN Ends(r, path, [uploads |-> uploads \ {path}, pc |-> "done",
                            status |-> "200"])
        ELSE Ends(r, path, CatchBlock(uploads, path, unlinked))
  /\ UNCHANGED <<botVars, extractVars, routerVars, voiceVars>>

NextUpload ==
  \/ Tick
  \/ \E r \in Requests, hasFile \in BOOLEAN, readable \in BOOLEAN,
        unlinked \in BOOLEAN : PostTranscribe(r, hasFile, readable, unlinked)
  \/ \E r \in Requests, outcome \in DeepgramOutcomes, unlinked \in BOOLEAN :
       Transcribed(r, outcome, unlinked)

SpecUpload == Init /\ [][NextUpload]_vars

-----------------------------------------------------------------------------
(* Claims *)

\* C1: under any interleaving of confirm handlers, at most one row is
\* appended for a session id (addExpenseToSheet succeeds at most once
\* per draft)
C1_AtMostOneRowPerSession == \A id \in DOMAIN calls : RowsFor(id) <= 1

\* a successful call of addExpenseToSheet for id is the last call for id
SuccessIsLast(id) ==
  \A i \in 1..Len(CallsFor(id)) : CallsFor(id)[i] => i = Len(CallsFor(id))

NotFoundOnly ==
  /\ last' = "notfound"
  /\ UNCHANGED <<noteStorage, session, sheet, calls, inflight, messages>>

\* C3: every button action (confirm, change category, set category, change
\* amount) whose session id is absent from noteStorage answers not-found
\* and does nothing else: no persistence call, no new session, no
\* awaiting-amount slot, noteStorage unchanged
C3_AbsentIdNotFoundOnly ==
  [][\A m \in messages :
       /\ (m.noteId \notin DOMAIN noteStorage
             /\ (PressConfirm(m) \/ PressChangeCategory(m) \/ PressChangeAmount(m)))
            => NotFoundOnly
       /\ \A c \in MenuChoices :
            (m.menu # <<>> /\ m.menu[2] \notin DOMAIN noteStorage
               /\ PressSetCategory(m, c))
              => NotFoundOnly]_vars

\* C3 witness: a button of a message whose id is gone was pressed and
\* answered not-found
C3_Witness ==
  /\ last = "notfound"
  /\ \E m \in messages : m.noteId \notin DOMAIN noteStorage /\ m.menu # <<>>

\* the handler that sendExpenseConfirmation has just suspended in this step
NewDraft(h) == h.pc = "reply" /\ inflight' = Suspend(h)

\* user u is asked for a new amount of a draft that is still stored
AwaitingAmount(u) ==
  session[u] # NoPending /\ session[u].noteId \in DOMAIN noteStorage

\* text is digits with an optional "." or "," fraction, and more than zero
IsPositiveDecimalText(text) ==
  LET n1 == DigitRun(text, 1)
      n2 == DigitRun(text, n1 + 2)
  IN /\ n1 >= 1
     /\ \/ n1 = Len(text)
        \/ /\ n1 < Len(text)
           /\ text[n1 + 1] \in {".", ","}
           /\ n2 >= 1
           /\ n1 + 1 + n2 = Len(text)
     /\ IsPositive(ParseFloat(ReplaceFirstComma(text)))

\* C4: once change-amount was pressed on a live session, a text of the user
\* that is a positive number is taken as the new amount: the new draft
\* has that amount with the category and note of the session, the slot is
\* used up, and the text is not analysed as an expense of its own
C4_AmountReplyConsumed ==
  [][\A u \in Users, text \in Texts :
       (TextMessage(u, text) /\ AwaitingAmount(u) /\ IsPositiveDecimalText(text))
         => /\ session'[u] = NoPending
            /\ \E h \in BagToSet(inflight') :
                 /\ NewDraft(h)
                 /\ h.amount = ParseFloat(ReplaceFirstComma(text))
                 /\ h.category = session[u].category
                 /\ h.note = noteStorage[session[u].noteId]]_vars

\* C5: a cancel appends no row and leaves the cancelled draft's id out of
\* noteStorage
C5_CancelDiscardsSession ==
  [][\A m \in messages :
       PressCancel(m)
         => (sheet' = sheet /\ calls' = calls
             /\ m.noteId \notin DOMAIN noteStorage')]_vars

\* C6: picking category c in the menu of a live draft gives a new draft
\* with category c and the amount and note of the draft edited, and
\* appends no row
C6_SetCategoryKeepsAmountAndNote ==
  [][\A m \in messages, c \in MenuChoices :
       (PressSetCategory(m, c) /\ m.noteId \in DOMAIN noteStorage)
         => /\ sheet' = sheet
            /\ calls' = calls
            /\ \E h \in BagToSet(inflight') :
                 /\ NewDraft(h)
                 /\ h.category = c
                 /\ h.amount = m.amount
                 /\ h.note = m.note]_vars

\* C7: while an amount is awaited, a text that is not a positive decimal
\* number changes neither the slot nor noteStorage and makes no draft;
\* "123,45" is taken and gives a draft with the amount 123.45
C7_AmountReplyValidated ==
  [][\A u \in Users, text \in Texts :
       (TextMessage(u, text) /\ AwaitingAmount(u))
         => IF IsPositiveDecimalText(text)
            THEN \E h \in BagToSet(inflight') :
                   NewDraft(h) /\ h.amount = ParseFloat(ReplaceFirstComma(text))
            ELSE UNCHANGED <<session, noteStorage, inflight, messages>>]_vars

\* C8: a row is appended only by a confirm handler that found its noteId
\* in noteStorage when it looked it up, and the row is that handler's:
\* no other handler changes the sheet
C8_RowsOnlyByConfirm ==
  [][/\ \A h \in Waiting("persist")' :
          h \notin Waiting("persist")
            => h.noteId \in DOMAIN noteStorage /\ h.note = noteStorage[h.noteId]
     /\ sheet' # sheet
          => \E h \in Waiting("persist") :
               /\ h.note # <<>>
               /\ sheet' = Append(sheet, [date |-> now, amount |-> h.amount,
                                          category |-> h.category, note |-> h.note])
               /\ inflight' = Continue(h, [h EXCEPT !.pc = "ack"])]_vars

\* C8 witness: a row was appended
C8_Witness == sheet # <<>>

\* C9: when authentication, loading or the append fails, addExpenseToSheet
\* returns false, and the confirm handler answers with the failure
\* acknowledgment, never the success one, returns without a second call
\* and leaves noteStorage as it is
C9_PersistenceFailureReported ==
  [][\A h \in Waiting("persist"), o \in SheetOutcomes \ {"ok"} :
       ConfirmPersist(h, o)
         => /\ ~addExpenseToSheet(sheet, now, h.amount, h.category, h.note, o).success
            /\ last' = "savefailed"
            /\ sheet' = sheet
            /\ noteStorage' = noteStorage
            /\ h.noteId \in DOMAIN noteStorage => h.noteId \in DOMAIN noteStorage'
            /\ inflight' = Return(h)
            /\ Len(calls'[h.noteId]) = Len(CallsFor(h.noteId)) + 1]_vars

\* C9 witness: a persistence call failed, the failure was acknowledged and
\* the session entry is still stored
C9_Witness ==
  /\ last = "savefailed"
  /\ \E id \in DOMAIN calls :
       /\ id \in DOMAIN noteStorage
       /\ ~calls[id][Len(calls[id])]
       /\ \A h \in BagToSet(inflight) : h.noteId # id

\* the capacity that the registry is said to have
SessionCapacity == 2

\* C10: noteStorage never holds more than a fixed number of entries
C10_RegistryBounded == Cardinality(DOMAIN noteStorage) <= SessionCapacity


\* C11: analysisResults never holds more than 1000 entries, and they are
\* the results stored last, in the order they were stored; the call that
\* would make them 1001 drops the one with the smallest resultId and keeps
\* all the others
C11_RegistryKeepsNewest ==
  /\ [](/\ Len(analysisResults) <= Capacity
        /\ \A i \in 1..Len(analysisResults) :
             /\ analysisResults[i].value.resultId
                  = resultCounter - Len(analysisResults) + i - 1
             /\ analysisResults[i].key
                  = NatToString(analysisResults[i].value.resultId))
  /\ [][(Len(analysisResults) = Capacity /\ resultCounter' # resultCounter)
          => /\ Len(analysisResults') = Capacity
             /\ \A i \in 2..Capacity : analysisResults'[i - 1] = analysisResults[i]
             /\ analysisResults'[Capacity].value.resultId = resultCounter
             /\ \A i \in 1..Capacity :
                  analysisResults'[i].key # analysisResults[1].key]_vars

\* C11 witness: the registry is full and its first result was dropped
C11_Witness ==
  /\ Len(analysisResults) = Capacity
  /\ analysisResults[1].value.resultId > 1


\* analyzeExpense has returned
Analyzed == extractResult # [none |-> TRUE]

\* C12: for a text without a digit the extractor returns the amount null
\* and the category 'inshi'
C12_NoDigitGivesNullAndOther ==
  (Analyzed /\ typed # <<>> /\ \A i \in 1..Len(TypedText) : ~IsDigit(TypedText[i]))
    => (extractResult.amount = Null /\ extractResult.category = Inshi)

\* the enumerated categories of the router variant (its prompt and help
\* text): produkty, kafe, pokupky, kom posluhy, sport, kanctovary,
\* transport, medytsyna, rozvahy, inshi
RouterCategories ==
  {<<"p", "r", "o", "d", "u", "k", "t", "y">>,
   <<"k", "a", "f", "e">>,
   <<"p", "o", "k", "u", "p", "k", "y">>,
   <<"k", "o", "m", " ", "p", "o", "s", "l", "u", "h", "y">>,
   <<"s", "p", "o", "r", "t">>,
   <<"k", "a", "n", "ts", "t", "o", "v", "a", "r", "y">>,
   <<"t", "r", "a", "n", "s", "p", "o", "r", "t">>,
   <<"m", "e", "d", "y", "ts", "y", "n", "a">>,
   <<"r", "o", "z", "v", "a", "h", "y">>,
   InshiWord}

\* C13: the category of every result of the extractor, as stored and as
\* answered, is one of the enumerated categories
C13_CategoryEnumerated ==
  /\ \A i \in 1..Len(analysisResults) :
       analysisResults[i].value.category \in RouterCategories
  /\ sent.value # NoResult => sent.value.category \in RouterCategories

\* position i of s starts a decimal number: a digit that follows neither a
\* digit nor the "." or "," of a number
StartsNumber(s, i) ==
  /\ IsDigit(s[i])
  /\ i > 1 => ~IsDigit(s[i - 1])
  /\ i > 2 => ~(s[i - 1] \in {".", ","} /\ IsDigit(s[i - 2]))

\* the decimal number that starts at position i of s
NumberAt(s, i) ==
  LET n1 == DigitRun(s, i)
      n2 == IF i + n1 <= Len(s) /\ s[i + n1] \in {".", ","}
            THEN DigitRun(s, i + n1 + 1) ELSE 0
  IN Num(FALSE, DigitsToNat(SubSeq(s, i, i + n1 - 1)),
         SubSeq(s, i + n1 + 1, i + n1 + n2))

\* the rules of the table that have a keyword in s
Matching(s) ==
  {k \in 1..Len(categoryPatterns) :
     \E kw \in categoryPatterns[k].kws : Contains(s, kw)}

\* C14: for a text with exactly one decimal number the regex extractor
\* returns that number as the amount and the category of the first rule of
\* the table with a keyword in the lowercased text, 'inshi' when there is no
\* such rule; "Kupyv produkty za 250 hrn" gives 250 and 'produkty'
C14_OneNumberAndFirstRule ==
  /\ (Analyzed /\ typed # <<>>
        /\ Cardinality({i \in 1..Len(TypedText) : StartsNumber(TypedText, i)}) = 1)
       => /\ ~extractResult.error
          /\ extractResult.amount
               = NumberAt(TypedText,
                          CHOOSE i \in 1..Len(TypedText) : StartsNumber(TypedText, i))
          /\ LET rules == Matching(ToLowerCase(TypedText))
             IN IF rules = {} THEN extractResult.category = Inshi
                ELSE extractResult.category
                       = categoryPatterns[CHOOSE k \in rules :
                                            \A j \in rules : k <= j].cat
  /\ (Analyzed /\ TypedText = ProduktyText)
       => /\ extractResult.amount = Num(FALSE, 250, <<>>)
          /\ extractResult.category = Produkty

\* C14 witness: "Kupyv produkty za 250 hrn" was analysed
C14_Witness == Analyzed /\ TypedText = ProduktyText


\* C15: "Kava 85 hrn" is extracted as 85 and 'kafe', and that is what the
\* draft shows and what the confirm handler hands to addExpenseToSheet,
\* once, before it acknowledges the success
C15_KavaScenario ==
  /\ \A m \in messages :
       m.note = KavaText => (m.amount = Num(FALSE, 85, <<>>) /\ m.category = Kafe)
  /\ \A i \in 1..Len(sheet) :
       sheet[i].note = KavaText
         => (sheet[i].amount = Num(FALSE, 85, <<>>) /\ sheet[i].category = Kafe)
  /\ \A id \in DOMAIN calls : Lookup(noteStorage, id) = KavaText => RowsFor(id) <= 1

\* the first reply does not have the shape "<number>, <category>"
Unshaped(primary) == primary # Throws /\ ParseReply(Trim(primary)) = <<>>

\* the second reply is neither JSON nor has the two fields
Unparseable(secondary) ==
  /\ secondary # Throws
  /\ ~JsonParse(secondary).ok
  /\ (AmountField(secondary) = <<>> \/ CategoryField(secondary) = <<>>)

\* the names of the rules of the keyword table, letter by letter and in the
\* order of the table
CategoryWords ==
  <<<<"p", "r", "o", "d", "u", "k", "t", "y">>,
    <<"k", "a", "f", "e">>,
    <<"k", "o", "m", "u", "n", "a", "l", "q", "n", "i", " ",
      "p", "o", "s", "l", "u", "h", "y">>,
    <<"s", "p", "o", "r", "t">>,
    <<"k", "a", "n", "ts", "t", "o", "v", "a", "r", "y">>,
    <<"p", "o", "k", "u", "p", "k", "y">>,
    <<"t", "r", "a", "n", "s", "p", "o", "r", "t">>,
    <<"r", "o", "z", "v", "a", "h", "y">>,
    <<"z", "d", "o", "r", "o", "v", "'", "ya">>>>

\* the category of the first rule with a keyword in the lowercased text,
\* 'inshi' when there is none
KeywordCategory(s) ==
  LET rules == Matching(ToLowerCase(s))
  IN IF rules = {} THEN InshiWord
     ELSE CategoryWords[CHOOSE k \in rules : \A j \in rules : k <= j]

\* C16: when the first reply has not the shape asked for and the second
\* cannot be parsed, the delegated extractor returns the first number of
\* the text (null when it has none) and the category of the first rule of
\* the keyword table that matches the lowercased text, 'inshi' when none does
C16_RegexFallback ==
  [][\A u \in Users, t \in RouterTexts, p \in PrimaryReplies, q \in SecondaryReplies :
       (RouterText(u, t, p, q) /\ Unshaped(p) /\ Unparseable(q))
         => /\ sent'.value.amount
                 = (IF FirstNumber(t) = <<>> THEN Null ELSE ParseFloat(FirstNumber(t)))
            /\ sent'.value.category = KeywordCategory(t)]_vars

\* C17: when the service throws while a text message is analysed, the
\* result is the error result (amount null, category 'inshi') and the user
\* is not told that the message was processed
C17_ServiceFailureSurfaced ==
  [][\A u \in Users, t \in RouterTexts, p \in PrimaryReplies, q \in SecondaryReplies :
       (RouterText(u, t, p, q) /\ (p = Throws \/ (Unshaped(p) /\ q = Throws)))
         => /\ sent'.value.error
            /\ sent'.value.amount = Null
            /\ sent'.value.category = InshiWord
            /\ sent'.reply # "success"]_vars

\* every attempt of the loop of transcribeAudio was rejected
AllAttemptsFailed ==
  /\ voice.pc \in {"recognized", "done"}
  /\ voice.attempts = 3
  /\ voice.response = NoResponse

Blank(s) == Trim(s) = <<>>

\* C19: whenever the output of the backend is empty or whitespace only,
\* transcribeAudio returns a could-not-recognize text, never the output
C19_BlankIsFailure ==
  (/\ voice.pc = "recognized"
   /\ voice.response # NoResponse
   /\ Blank(voice.response))
  => voice.text \in {NotRecognized, NotRecognizedRetry}

\* C20: when the handler of a voice message has finished, whichever way,
\* the temp directory holds neither a downloaded nor a converted file
C20_NoFileLeft == voice.pc = "done" => DOMAIN files = {}

\* the download of the message in hand failed, or the file it gave is over
\* the limit
NotAcquired(v) ==
  \/ v.download = "failed"
  \/ v.download = "ok" /\ v.fileSizeInMB > 20

\* C21: when the download fails or the file exceeds 20 MB, the handler ends
\* with a reply to the user, without conversion, transcription or
\* extraction, and without a new note or confirmation message
C21_NoProcessingWithoutFile ==
  [][(voice.pc = "download" /\ NotAcquired(voice'))
       => /\ voice'.pc = "done"
          /\ voice'.reply \in {"error", "oversize"}
          /\ voice'.attempts = 0
          /\ voice'.text = <<>>
          /\ DOMAIN files' \ DOMAIN files \subseteq {OggPath}
          /\ noteStorage' = noteStorage
          /\ messages' = messages]_vars

\* a file over the limit was downloaded and the handler ended with the
\* oversize reply
C21_Witness ==
  /\ voice.pc = "done"
  /\ voice.download = "ok"
  /\ voice.fileSizeInMB > 20
  /\ voice.reply = "oversize"

\* C22: two voice messages in hand at the same time have distinct file
\* paths
C22_DistinctPaths ==
  \A h \in Handlers, g \in Handlers :
    (h # g /\ InHand(h) /\ InHand(g)) => overlap[h].filePath # overlap[g].filePath

\* C23: a POST /webhook whose body has no text is answered with 400, and
\* neither stores a result nor moves the counter
C23_MissingTextIs400 ==
  [][\A data \in WebhookBodies, p \in PrimaryReplies, q \in SecondaryReplies :
       (WebhookPost(data, p, q) /\ data.text = <<>>)
         => /\ sent'.reply = "400"
            /\ analysisResults' = analysisResults
            /\ resultCounter' = resultCounter]_vars

\* the resultId was given out and its entry is among the Capacity stored last
Retained(n) == n >= 1 /\ n < resultCounter /\ n >= resultCounter - Capacity

\* C24: processWebhookData stores each result under a resultId not used
\* before; GET /api/analysis/<id> answers 200 with the result stored under
\* that id as long as the entry is retained, and 404 for an id never given
\* out or evicted
C24_StoredResultServed ==
  /\ [](sent.to = "/api/analysis"
          => IF Retained(DigitsToNat(sent.id))
             THEN /\ sent.reply = "200"
                  /\ sent.value = NthResult(DigitsToNat(sent.id))
             ELSE /\ sent.reply = "404"
                  /\ sent.value = NoResult)
  /\ [][resultCounter' # resultCounter
          => /\ sent'.to = "/webhook"
             /\ sent'.reply = "200"
             /\ sent'.value = NthResult(resultCounter)
             /\ \A i \in 1..Len(analysisResults) :
                  analysisResults[i].key # NatToString(sent'.value.resultId)
             /\ MapHas(analysisResults', NatToString(sent'.value.resultId))
             /\ MapGet(analysisResults', NatToString(sent'.value.resultId))
                  = sent'.value]_vars

\* the result with resultId 2 was asked for and served while retained, with
\* the first result already evicted
C24_Witness ==
  /\ sent.to = "/api/analysis"
  /\ sent.id = <<"2">>
  /\ sent.reply = "200"
  /\ resultCounter = Capacity + 2

FailureTexts == {NotRecognizedRetry, NotRecognized, PlaceholderText}

\* C26: no note is stored and no confirmation message is shown whose text
\* is a could-not-recognize text or the made-up expense sentence
C26_NoDraftFromFailure ==
  /\ \A id \in DOMAIN noteStorage : noteStorage[id] \notin FailureTexts
  /\ \A m \in messages : m.note \notin FailureTexts

\* C27: the confirm handler of a live draft goes to persistence with the
\* amount, the category and the note of the confirmation message whose
\* button was pressed
C27_RowIsTheDraftShown ==
  [][\A m \in messages :
       (PressConfirm(m) /\ m.noteId \in DOMAIN noteStorage)
         => inflight' = Suspend(
              [pc |-> "persist", user |-> m.user, amount |-> m.amount,
               category |-> m.category, noteId |-> m.noteId,
               note |-> m.note])]_vars

\* C28: every row of the sheet has an amount that is a number greater
\* than zero
C28_RowsHavePositiveAmount ==
  \A i \in 1..Len(sheet) :
    ~IsNaN(sheet[i].amount) /\ IsPositive(sheet[i].amount)

\* C29: with both processExpense and processWebhookData storing results,
\* analysisResults never holds more than 1000 entries
C29_BothPathsBounded == Len(analysisResults) <= Capacity

\* the request r is answered in this step with 200 or 500
Responds(r) ==
  /\ requests'[r] # requests[r]
  /\ requests'[r].status \in {"200", "500"}

\* C30: when a request to /transcribe that carried an accepted file is
\* answered with 200 or with 500, its file is no longer in the uploads
\* directory
C30_UploadRemovedAtResponse ==
  [][\A r \in Requests : Responds(r) => requests'[r].path \notin uploads']_vars

\* a request that carried a file was answered with 500 and its file is
\* gone
C30_Witness ==
  \E r \in Requests :
    /\ requests[r].status = "500"
    /\ requests[r].path # <<>>
    /\ requests[r].path \notin uploads

=============================================================================
